---- MODULE Spec2Model ----
(***************************************************************************)
(* The daily watering-schedule updater of the plant marketplace backend    *)
(* (src/backend/daily_watering_update/__init__.py) as a state machine over *)
(* the "inventory" container of the document store, followed by the       *)
(* watering-notification scheduler, the chat handlers and the review       *)
(* handlers of the same backend, each under a specification of its own.    *)
(*                                                                         *)
(* A document is a function from its keys to values, as a Python dict: a   *)
(* key the document lacks is absent from its DOMAIN.  A calendar date      *)
(* (the "%Y-%m-%d" string of datetime.now()) is the number of its day: the *)
(* code only compares dates for equality.                                  *)
(***************************************************************************)
EXTENDS Integers, Sequences, FiniteSets, TLC

\* ------------------------------------------------------------ bounds
MaxDay == 2
MaxRuns == 2
MaxWaterDays == 2

\* ------------------------------------------------ program constants
DefaultWaterDays == 7
BATCH_SIZE == 20
RainCodeLow == 200
RainCodeHigh == 600
HttpOk == 200

\* ------------------------------------------------------------ state
VARIABLES
  store,        \* inventory container: id -> document
  clock,        \* the calendar day datetime.now() falls on
  runs,         \* timer invocations started so far
  pc,           \* per invocation: position in main / update_plants_watering_schedule
  businesses,   \* rows of the business query not yet finished (head = current)
  has_rained,   \* did_it_rain(weather_data) for the current business
  today,        \* today as read at the top of update_plants_watering_schedule
  updates,      \* the updates list not yet upserted
  error,        \* the call that raised, when pc = "aborted"
  weather,      \* history: what the weather request of the current business met
  snap,         \* history: the container as the plants query read it
  runStart,     \* history: the container when the invocation started
  dirty,        \* history: ids appended to updates for the current business
  lastOk,       \* history: day and rain flag of each business's last completed update
  hist,         \* history: per document, the countdown mutations (day, kind, changed)
  orig,         \* history: the container as first listed
  okSet         \* history: businesses whose update completed in this invocation

vars == <<store, clock, runs, pc, businesses, has_rained, today, updates, error,
          weather, snap, runStart, dirty, lastOk, hist, orig, okSet>>

\* send_watering_notifications
VARIABLES
  notifications_container,  \* watering_notifications container: id -> document
  now,                      \* utcnow() as read by main: [hour, minute]
  npc,                      \* position in main / process_business_notifications
  nbusinesses,              \* rows of the businesses query not yet processed
  notifications,            \* the settings of the current business not yet stamped
  device_tokens,            \* the device tokens collected for the current business
  sentLog,                  \* history: the posts the notification hub accepted
  selected,                 \* history: the businessIds the businesses query returned
  norig                     \* history: the container when the scheduler started

notifyVars == <<notifications_container, now, npc, nbusinesses, notifications,
                device_tokens, sentLog, selected, norig>>

\* create-chat, send-message, get-messages
VARIABLES
  conversations_container,  \* marketplace-conversations container: set of documents
  messages_container,       \* marketplace-messages container: set of documents
  requests,                 \* per handler slot: the request in progress and its locals
  started                   \* requests started so far

chatVars == <<conversations_container, messages_container, requests, started>>

\* reviews-submit, reviews-delete
VARIABLES
  reviews_container,        \* marketplace-reviews container: set of documents
  targets,                  \* users and marketplace-plants documents: id -> document
  last,                     \* the response of the last request
  submitted                 \* requests handled so far

reviewVars == <<reviews_container, targets, last, submitted>>

\* What a step of the updater leaves alone.
notUpdater == <<notifyVars, chatVars, reviewVars>>

\* The other handlers at rest: what their variables hold under a
\* specification that does not run them.
NIds == {1, 2}
Slots == {1, 2}
NoTime == [hour |-> 0 - 1, minute |-> 0]
NoSettings == [n \in NIds |-> [id |-> n]]
NoRequest == [op |-> "none", pc |-> "idle"]
NoResponse == [op |-> "none"]

NotifyIdle ==
  /\ notifications_container = NoSettings
  /\ norig = NoSettings
  /\ now = NoTime
  /\ npc = "idle"
  /\ nbusinesses = << >>
  /\ notifications = << >>
  /\ device_tokens = {}
  /\ sentLog = {}
  /\ selected = {}

ChatIdle ==
  /\ conversations_container = << >>
  /\ messages_container = << >>
  /\ requests = [s \in Slots |-> NoRequest]
  /\ started = 0

ReviewsIdle ==
  /\ reviews_container = {}
  /\ targets = << >>
  /\ last = NoResponse
  /\ submitted = 0

Runners == {1, 2}
Ids == {1, 2, 3}
Businesses == {"b1", "b2"}

\* ------------------------------------------------------- dict helpers
Has(d, k) == k \in DOMAIN d

DictGet(d, k, default) == IF k \in DOMAIN d THEN d[k] ELSE default

\* d with key k set to v (d[k] = v in Python)
DictSet(d, k, v) == [x \in {k} |-> v] @@ d

SeqOfSet(S) == {s \in [1..Cardinality(S) -> S] : \A i, j \in 1..Cardinality(S) : i # j => s[i] # s[j]}

RECURSIVE SortedIds(_)
SortedIds(S) ==
  IF S = {} THEN << >>
  ELSE LET m == CHOOSE x \in S : \A y \in S : x <= y
       IN <<m>> \o SortedIds(S \ {m})

\* ------------------------------------------------------ weather oracle
\* A JSON value is tagged: [t |-> "null"], [t |-> "obj", v |-> dict],
\* [t |-> "int", v |-> n], [t |-> "str"].
JNull == [t |-> "null"]
JObj(d) == [t |-> "obj", v |-> d]
JInt(n) == [t |-> "int", v |-> n]
JStr == [t |-> "str"]

ConditionCodes == {RainCodeLow - 1, RainCodeLow, 500, RainCodeHigh - 1, RainCodeHigh, 800}

\* Bodies an HTTP 200 answer of the weather service can carry.
WeatherBodies ==
  {JNull,
   JObj([cod |-> JInt(HttpOk)]),
   JObj([weather |-> << >>]),
   JObj([weather |-> <<[main |-> JStr]>>]),
   JObj([weather |-> <<[id |-> JStr]>>])}
  \cup {JObj([weather |-> <<[id |-> JInt(c)]>>]) : c \in ConditionCodes}

\* What requests.get can meet: an exception, or a response with a status.
WeatherOutcomes ==
  {[kind |-> "exception"]}
  \cup {[kind |-> "response", status |-> 401, body |-> JObj([cod |-> JInt(401)])]}
  \cup {[kind |-> "response", status |-> HttpOk, body |-> b] : b \in WeatherBodies}

NoWeather == [kind |-> "none"]

\* What the history keeps of a weather request once the plants are read:
\* whether it met an exception, and the status of the response.
Coarse(outcome) ==
  IF outcome.kind = "response" THEN [kind |-> "response", status |-> outcome.status]
  ELSE outcome

Ret(v) == [raised |-> FALSE, value |-> v]
Raise == [raised |-> TRUE, value |-> JNull]

\* check_weather with its try/except removed: the exception reaches main.
check_weather_unguarded(outcome) ==
  IF outcome.kind = "exception" THEN Raise
  ELSE IF outcome.status = HttpOk THEN Ret(outcome.body) ELSE Ret(JNull)

\* check_weather: the parsed body on status 200, None otherwise; never raises.
check_weather(outcome) ==
  IF outcome.kind = "exception" THEN Ret(JNull)
  ELSE IF outcome.status = HttpOk THEN Ret(outcome.body) ELSE Ret(JNull)

\* Python truthiness of a parsed body: None and the empty dict are falsy.
Falsy(j) == j.t = "null" \/ (j.t = "obj" /\ DOMAIN j.v = {})

\* did_it_rain with the upper end of the range of line 98 included.
did_it_rain_inclusive(weather_data) ==
  IF Falsy(weather_data) \/ ~Has(weather_data.v, "weather")
     \/ Len(weather_data.v.weather) = 0
  THEN Ret(FALSE)
  ELSE LET first == weather_data.v.weather[1] IN
       IF ~Has(first, "id") THEN Raise
       ELSE IF first.id.t # "int" THEN Raise
       ELSE Ret(RainCodeLow <= first.id.v /\ first.id.v <= RainCodeHigh)

\* did_it_rain: the boolean it returns, or the exception it raises
\* (KeyError when the first condition has no 'id', TypeError when the id
\* does not compare with an int).
did_it_rain(weather_data) ==
  IF Falsy(weather_data) \/ ~Has(weather_data.v, "weather")
     \/ Len(weather_data.v.weather) = 0
  THEN Ret(FALSE)
  ELSE LET first == weather_data.v.weather[1] IN
       IF ~Has(first, "id") THEN Raise
       ELSE IF first.id.t # "int" THEN Raise
       ELSE Ret(RainCodeLow <= first.id.v /\ first.id.v < RainCodeHigh)

\* ------------------------------------------------- per-plant transition
\* NewSchedule leaving the new schedule stamped with an earlier day, so
\* that the same run's elif of line 144 sees it as not updated today.
NewScheduleStaleStamp(plant, day) ==
  LET water_days == DictGet(plant, "water_days", DefaultWaterDays) IN
  [waterDays |-> water_days,
   activeWaterDays |-> water_days,
   lastWatered |-> "None",
   lastWateringUpdate |-> day - 1,
   needsWatering |-> FALSE,
   weatherAffected |-> FALSE]

\* lines 124-132: the schedule a plant without one is given
NewSchedule(plant, day) ==
  LET water_days == DictGet(plant, "water_days", DefaultWaterDays) IN
  [waterDays |-> water_days,
   activeWaterDays |-> water_days,
   lastWatered |-> "None",
   lastWateringUpdate |-> day,
   needsWatering |-> FALSE,
   weatherAffected |-> FALSE]

\* The rain reset taken for a watering: it also stamps lastWatered.
RainResetMarksWatered(s, day) ==
  [s EXCEPT !.activeWaterDays = s.waterDays,
            !.needsWatering = FALSE,
            !.weatherAffected = TRUE,
            !.lastWateringUpdate = day,
            !.lastWatered = "now"]

\* lines 136-141: the rain reset
RainReset(s, day) ==
  [s EXCEPT !.activeWaterDays = s.waterDays,
            !.needsWatering = FALSE,
            !.weatherAffected = TRUE,
            !.lastWateringUpdate = day]

\* The decrement without its floor.
Max0Off(n) == n

\* line 145: max(0, n)
Max0(n) == IF n > 0 THEN n ELSE 0

\* The decrement without line 147: weatherAffected is left as it was.
DecrementKeepsFlag(s, day) ==
  LET a == Max0(DictGet(s, "activeWaterDays", 0) - 1) IN
  [s EXCEPT !.activeWaterDays = a,
            !.needsWatering = (a <= 0),
            !.lastWateringUpdate = day]

\* lines 144-149: the daily decrement
Decrement(s, day) ==
  LET a == Max0(DictGet(s, "activeWaterDays", 0) - 1) IN
  [s EXCEPT !.activeWaterDays = a,
            !.needsWatering = (a <= 0),
            !.weatherAffected = FALSE,
            !.lastWateringUpdate = day]

\* The elif of line 144 with its same-day test dropped.
StaleAlways(s, day) == TRUE

\* line 144: the schedule was not updated today
Stale(s, day) == s.lastWateringUpdate # day

\* The loop body with a rain reset that reads the base interval of the
\* plant again instead of the waterDays kept in the schedule.
TransitionPlantRecopy(plant, rained, day) ==
  LET fresh == ~Has(plant, "wateringSchedule")
      p1 == IF fresh THEN DictSet(plant, "wateringSchedule", NewSchedule(plant, day))
            ELSE plant
      s1 == p1.wateringSchedule
      base == DictGet(plant, "water_days", DefaultWaterDays)
      s2 == IF rained
            THEN [RainReset(s1, day) EXCEPT !.waterDays = base, !.activeWaterDays = base]
            ELSE IF Stale(s1, day) THEN Decrement(s1, day)
            ELSE s1
  IN [plant |-> DictSet(p1, "wateringSchedule", s2),
      needs_update |-> (fresh \/ rained \/ Stale(s1, day))]

\* The loop body as one if / elif / elif chain: a plant without a
\* schedule is initialized and nothing else.
TransitionPlantElif(plant, rained, day) ==
  LET fresh == ~Has(plant, "wateringSchedule")
      p1 == IF fresh THEN DictSet(plant, "wateringSchedule", NewSchedule(plant, day))
            ELSE plant
      s1 == p1.wateringSchedule
      s2 == IF fresh THEN s1
            ELSE IF rained THEN RainReset(s1, day)
            ELSE IF Stale(s1, day) THEN Decrement(s1, day)
            ELSE s1
  IN [plant |-> DictSet(p1, "wateringSchedule", s2),
      needs_update |-> (fresh \/ rained \/ Stale(s1, day))]

\* The loop body appending every plant to updates, changed or not.
TransitionPlantAlwaysDirty(plant, rained, day) ==
  LET fresh == ~Has(plant, "wateringSchedule")
      p1 == IF fresh THEN DictSet(plant, "wateringSchedule", NewSchedule(plant, day))
            ELSE plant
      s1 == p1.wateringSchedule
      s2 == IF rained THEN RainReset(s1, day)
            ELSE IF Stale(s1, day) THEN Decrement(s1, day)
            ELSE s1
  IN [plant |-> DictSet(p1, "wateringSchedule", s2),
      needs_update |-> TRUE]

\* The body of the for loop over plants (lines 120-149): the plant as
\* mutated in memory and the needs_update flag.
TransitionPlant(plant, rained, day) ==
  LET fresh == ~Has(plant, "wateringSchedule")
      p1 == IF fresh THEN DictSet(plant, "wateringSchedule", NewSchedule(plant, day))
            ELSE plant
      s1 == p1.wateringSchedule
      s2 == IF rained THEN RainReset(s1, day)
            ELSE IF Stale(s1, day) THEN Decrement(s1, day)
            ELSE s1
  IN [plant |-> DictSet(p1, "wateringSchedule", s2),
      needs_update |-> (fresh \/ rained \/ Stale(s1, day))]

\* lines 151-156: the entry appended to updates
UpdateItem(plant, business) ==
  [id |-> plant.id, businessId |-> business, wateringSchedule |-> plant.wateringSchedule]

\* ------------------------------------------------------------ queries
IsPlant(d) == Has(d, "productType") /\ d.productType = "plant"
OfBusiness(d, b) == Has(d, "businessId") /\ d.businessId = b
HasGps(d) == Has(d, "location") /\ Has(d.location, "gpsCoordinates")

\* The business query without DISTINCT: one row per matching document.
BusinessQueryAllRows(st) ==
  LET ids == SortedIds({i \in Ids : IsPlant(st[i]) /\ Has(st[i], "location")})
  IN {[k \in 1..Len(ids) |-> [businessId |-> st[ids[k]].businessId]]}

\* line 28: SELECT DISTINCT c.businessId ... ; the possible result lists
\* (the order of the rows is the store's choice).
BusinessQuery(st) ==
  LET S == {st[i].businessId : i \in {i \in Ids : IsPlant(st[i]) /\ Has(st[i], "location")}}
  IN {[k \in 1..Len(s) |-> [businessId |-> s[k]]] : s \in SeqOfSet(S)}

\* The location query with its businessId condition dropped: the first
\* GPS-located plant of any business.
LocationQueryAnyBusiness(st, b) ==
  LET M == {i \in Ids : IsPlant(st[i]) /\ HasGps(st[i])}
  IN IF M = {} THEN {<< >>}
     ELSE {<<[gpsCoordinates |-> st[i].location.gpsCoordinates]>> : i \in M}

\* lines 38-49: SELECT TOP 1 c.location.gpsCoordinates ... ; the possible
\* result lists (which matching document comes first is the store's choice).
LocationQuery(st, b) ==
  LET M == {i \in Ids : OfBusiness(st[i], b) /\ IsPlant(st[i]) /\ HasGps(st[i])}
  IN IF M = {} THEN {<< >>}
     ELSE {<<[gpsCoordinates |-> st[i].location.gpsCoordinates]>> : i \in M}

\* line 51: not locations or 'gpsCoordinates' not in locations[0]
NoCoordinates(locations) ==
  IF locations = << >> THEN TRUE ELSE ~Has(locations[1], "gpsCoordinates")

\* The plants query without its productType condition.
PlantsQueryAllTypes(st, b) ==
  LET ids == SortedIds({i \in Ids : OfBusiness(st[i], b)})
  IN [k \in 1..Len(ids) |-> st[ids[k]]]

\* lines 104-114: SELECT * ... ; the matching documents, by id.
PlantsQuery(st, b) ==
  LET ids == SortedIds({i \in Ids : OfBusiness(st[i], b) /\ IsPlant(st[i])})
  IN [k \in 1..Len(ids) |-> st[ids[k]]]

\* lines 116-156: the updates list built from the query result.
RECURSIVE BuildUpdates(_, _, _, _)
BuildUpdates(plants, b, rained, day) ==
  IF plants = << >> THEN << >>
  ELSE LET t == TransitionPlant(Head(plants), rained, day)
           rest == BuildUpdates(Tail(plants), b, rained, day)
       IN IF t.needs_update THEN <<UpdateItem(t.plant, b)>> \o rest ELSE rest

\* lines 160-162: the order in which the batches hand the items to upsert.
RECURSIVE BatchOrder(_)
BatchOrder(ups) ==
  IF Len(ups) <= BATCH_SIZE THEN ups
  ELSE SubSeq(ups, 1, BATCH_SIZE) \o BatchOrder(SubSeq(ups, BATCH_SIZE + 1, Len(ups)))

\* An upsert that applies a decrement to the countdown stored at the time
\* of the write instead of writing the countdown computed from the read.
UpsertItemRelative(st, item) ==
  LET old == st[item.id]
      s == IF Has(old, "wateringSchedule") /\ ~item.wateringSchedule.weatherAffected
           THEN [item.wateringSchedule EXCEPT
                   !.activeWaterDays = Max0(old.wateringSchedule.activeWaterDays - 1)]
           ELSE item.wateringSchedule
  IN [st EXCEPT ![item.id] =
        [id |-> item.id, businessId |-> item.businessId, wateringSchedule |-> s]]

\* lines 163-167: upsert_item replaces the stored document of that id and
\* partition by the body it is given: id, businessId and wateringSchedule.
UpsertItem(st, item) ==
  [st EXCEPT ![item.id] =
     [id |-> item.id, businessId |-> item.businessId,
      wateringSchedule |-> item.wateringSchedule]]

\* ------------------------------------------------------ initial store
LocGps == [city |-> "c", gpsCoordinates |-> [latitude |-> 32, longitude |-> 34]]
LocNoGps == [city |-> "c"]

\* A schedule as another writer of the inventory (the listing code, the
\* "mark watered" action) or an earlier day's run left it.
Schedule(w, a, lw, day, wa) ==
  [waterDays |-> w, activeWaterDays |-> a, lastWatered |-> lw,
   lastWateringUpdate |-> day, needsWatering |-> (a <= 0), weatherAffected |-> wa]

Listing(i, b, type) == [id |-> i, businessId |-> b, productType |-> type]

\* Plant 1 of business b1: located by GPS; no schedule yet (any base
\* interval, or none), or a schedule stamped yesterday (0) or today (1).
Docs1 ==
  LET base == DictSet(Listing(1, "b1", "plant"), "location", LocGps) IN
  {base}
  \cup {DictSet(base, "water_days", w) : w \in 0..MaxWaterDays}
  \cup {DictSet(base, "wateringSchedule", Schedule(MaxWaterDays, a, "None", d, FALSE)) :
          a \in 0..MaxWaterDays, d \in {0, 1}}

\* Document 2 of business b1: a plant without location, a plant with a
\* schedule stamped today whose base interval was edited (to 1) after the
\* schedule was created, or a tool.
Docs2 ==
  {Listing(2, "b1", "plant"),
   DictSet(DictSet(DictSet(Listing(2, "b1", "plant"), "location", LocGps), "water_days", 1),
           "wateringSchedule", Schedule(MaxWaterDays, 1, "t0", 1, TRUE)),
   DictSet(Listing(2, "b1", "tool"), "location", LocGps)}

\* Plant 3 of business b2: located by GPS or only by city.
Docs3 ==
  {DictSet(DictSet(Listing(3, "b2", "plant"), "location", LocGps), "water_days", 1),
   DictSet(Listing(3, "b2", "plant"), "location", LocNoGps),
   DictSet(DictSet(Listing(3, "b2", "plant"), "location", LocGps),
           "wateringSchedule", Schedule(0, 0, "None", 0, FALSE))}

Stores == {s \in [Ids -> Docs1 \cup Docs2 \cup Docs3] :
             s[1] \in Docs1 /\ s[2] \in Docs2 /\ s[3] \in Docs3}

NoStore == [i \in Ids |-> [id |-> i]]
NeverOk == [day |-> 0 - 1, rained |-> FALSE]

\* The mutation a stored schedule records: lastWateringUpdate is the day
\* of the last countdown mutation, weatherAffected its kind.
SeedHist(d) ==
  IF Has(d, "wateringSchedule")
  THEN <<[day |-> d.wateringSchedule.lastWateringUpdate,
          kind |-> IF d.wateringSchedule.weatherAffected THEN "rain" ELSE "dec",
          changed |-> TRUE]>>
  ELSE << >>

\* The state before an invocation: the store is one of S, and n
\* invocations have been counted.
InitFrom(S, n) ==
  /\ store \in S
  /\ orig = store
  /\ clock = 1
  /\ runs = n
  /\ pc = [r \in Runners |-> "idle"]
  /\ businesses = [r \in Runners |-> << >>]
  /\ has_rained = [r \in Runners |-> FALSE]
  /\ today = [r \in Runners |-> 0]
  /\ updates = [r \in Runners |-> << >>]
  /\ error = [r \in Runners |-> "none"]
  /\ weather = [r \in Runners |-> NoWeather]
  /\ snap = [r \in Runners |-> NoStore]
  /\ runStart = [r \in Runners |-> NoStore]
  /\ dirty = [r \in Runners |-> {}]
  /\ lastOk = [b \in Businesses |-> NeverOk]
  /\ hist = [i \in Ids |-> SeedHist(store[i])]
  /\ okSet = [r \in Runners |-> {}]

Init == InitFrom(Stores, 0) /\ NotifyIdle /\ ChatIdle /\ ReviewsIdle

\* ------------------------------------------------------------ actions
Abort(r, call) ==
  /\ pc' = [pc EXCEPT ![r] = "aborted"]
  /\ error' = [error EXCEPT ![r] = call]

\* main going on to the business query although the connection settings
\* are missing (the KeyError swallowed).
StartRunConfigIgnored(r) ==
  /\ pc[r] = "idle" /\ runs < MaxRuns
  /\ runs' = runs + 1
  /\ error' = [error EXCEPT ![r] = "config"]
  /\ \E rows \in BusinessQuery(store) :
       businesses' = [businesses EXCEPT ![r] = rows]
  /\ pc' = [pc EXCEPT ![r] = "loop"]
  /\ runStart' = [runStart EXCEPT ![r] = store]
  /\ UNCHANGED <<store, clock, has_rained, today, updates, weather, snap,
                 dirty, lastOk, hist, orig, okSet>>
  /\ UNCHANGED notUpdater

\* main, lines 16-32, when the connection settings are missing: os.environ
\* raises KeyError, main logs and re-raises.
StartRunNoConfig(r) ==
  /\ pc[r] = "idle" /\ runs < MaxRuns
  /\ runs' = runs + 1
  /\ Abort(r, "config")
  /\ runStart' = [runStart EXCEPT ![r] = store]
  /\ UNCHANGED <<store, clock, businesses, has_rained, today, updates, weather, snap,
                 dirty, lastOk, hist, orig, okSet>>
  /\ UNCHANGED notUpdater

\* main, lines 16-32: the business query; it raises, or returns its rows.
StartRun(r) ==
  /\ pc[r] = "idle" /\ runs < MaxRuns
  /\ runs' = runs + 1
  /\ runStart' = [runStart EXCEPT ![r] = store]
  /\ \/ /\ Abort(r, "business_query")
        /\ UNCHANGED businesses
     \/ /\ \E rows \in BusinessQuery(store) :
             businesses' = [businesses EXCEPT ![r] = rows]
        /\ pc' = [pc EXCEPT ![r] = "loop"]
        /\ UNCHANGED error
  /\ UNCHANGED <<store, clock, has_rained, today, updates, weather, snap,
                 dirty, lastOk, hist, orig, okSet>>
  /\ UNCHANGED notUpdater

\* main, lines 34-53, when the location query raises.
LocationQueryFails(r) ==
  /\ pc[r] = "loop" /\ businesses[r] # << >>
  /\ Abort(r, "location_query")
  /\ UNCHANGED <<store, clock, runs, businesses, has_rained, today, updates, weather,
                 snap, runStart, dirty, lastOk, hist, orig, okSet>>
  /\ UNCHANGED notUpdater

\* main, lines 51-53: no GPS coordinates for the business: continue.
SkipBusiness(r) ==
  /\ pc[r] = "loop" /\ businesses[r] # << >>
  /\ \E locations \in LocationQuery(store, Head(businesses[r]).businessId) :
       NoCoordinates(locations)
  /\ businesses' = [businesses EXCEPT ![r] = Tail(@)]
  /\ UNCHANGED <<store, clock, runs, pc, has_rained, today, updates, error, weather,
                 snap, runStart, dirty, lastOk, hist, orig, okSet>>
  /\ UNCHANGED notUpdater

\* main, lines 55-64: the weather request and its classification; an
\* exception out of check_weather or did_it_rain reaches main's except.
CheckBusinessWeather(r) ==
  /\ pc[r] = "loop" /\ businesses[r] # << >>
  /\ \E locations \in LocationQuery(store, Head(businesses[r]).businessId) :
       ~NoCoordinates(locations)
  /\ \E outcome \in WeatherOutcomes :
       LET weather_data == check_weather(outcome)
           rained == IF weather_data.raised THEN Raise
                     ELSE did_it_rain(weather_data.value)
       IN /\ weather' = [weather EXCEPT ![r] = outcome]
          /\ IF weather_data.raised
             THEN Abort(r, "check_weather") /\ UNCHANGED has_rained
             ELSE IF rained.raised
             THEN Abort(r, "did_it_rain") /\ UNCHANGED has_rained
             ELSE /\ has_rained' = [has_rained EXCEPT ![r] = rained.value]
                  /\ pc' = [pc EXCEPT ![r] = "update"]
                  /\ UNCHANGED error
  /\ UNCHANGED <<store, clock, runs, businesses, today, updates, snap, runStart,
                 dirty, lastOk, hist, orig, okSet>>
  /\ UNCHANGED notUpdater

\* update_plants_watering_schedule, lines 102-114, when the plants query
\* raises: logged, re-raised, and re-raised again by main.
PlantsQueryFails(r) ==
  /\ pc[r] = "update"
  /\ Abort(r, "plants_query")
  /\ UNCHANGED <<store, clock, runs, businesses, has_rained, today, updates, weather,
                 snap, runStart, dirty, lastOk, hist, orig, okSet>>
  /\ UNCHANGED notUpdater

\* update_plants_watering_schedule, lines 104-156: read the plants, read
\* the date, build the updates list in memory.
ReadPlants(r) ==
  /\ pc[r] = "update"
  /\ LET b == Head(businesses[r]).businessId
         ups == BuildUpdates(PlantsQuery(store, b), b, has_rained[r], clock)
     IN /\ today' = [today EXCEPT ![r] = clock]
        /\ updates' = [updates EXCEPT ![r] = BatchOrder(ups)]
        /\ dirty' = [dirty EXCEPT ![r] = {ups[k].id : k \in 1..Len(ups)}]
  /\ snap' = [snap EXCEPT ![r] = store]
  /\ weather' = [weather EXCEPT ![r] = Coarse(@)]
  /\ pc' = [pc EXCEPT ![r] = "upsert"]
  /\ UNCHANGED <<store, clock, runs, businesses, has_rained, error,
                 runStart, lastOk, hist, orig, okSet>>
  /\ UNCHANGED notUpdater

\* upsert_item raising after the store has applied the write.
UpsertFailsAfterWrite(r) ==
  /\ pc[r] = "upsert" /\ updates[r] # << >>
  /\ Abort(r, "upsert")
  /\ store' = UpsertItem(store, Head(updates[r]))
  /\ UNCHANGED <<clock, runs, businesses, has_rained, today, updates, weather,
                 snap, runStart, dirty, lastOk, hist, orig, okSet>>
  /\ UNCHANGED notUpdater

\* lines 163-167 when upsert_item raises: the items upserted so far stay.
UpsertFails(r) ==
  /\ pc[r] = "upsert" /\ updates[r] # << >>
  /\ Abort(r, "upsert")
  /\ UNCHANGED <<store, clock, runs, businesses, has_rained, today, updates, weather,
                 snap, runStart, dirty, lastOk, hist, orig, okSet>>
  /\ UNCHANGED notUpdater

MutationKind(r, item) ==
  IF has_rained[r] THEN "rain"
  ELSE IF Has(snap[r][item.id], "wateringSchedule") THEN "dec" ELSE "init"

\* lines 163-167: one upsert_item call.
Upsert(r) ==
  /\ pc[r] = "upsert" /\ updates[r] # << >>
  /\ LET item == Head(updates[r])
         old == store[item.id]
     IN /\ store' = UpsertItem(store, item)
        /\ hist' = [hist EXCEPT ![item.id] =
               Append(@, [day |-> item.wateringSchedule.lastWateringUpdate,
                          kind |-> MutationKind(r, item),
                          changed |-> (~Has(old, "wateringSchedule")
                                       \/ old.wateringSchedule.activeWaterDays
                                          # item.wateringSchedule.activeWaterDays)])]
  /\ updates' = [updates EXCEPT ![r] = Tail(@)]
  /\ UNCHANGED <<clock, runs, pc, businesses, has_rained, today, error, weather,
                 snap, runStart, dirty, lastOk, orig, okSet>>
  /\ UNCHANGED notUpdater

\* line 169 and the return to main's loop: the business is finished.
BusinessDone(r) ==
  /\ pc[r] = "upsert" /\ updates[r] = << >>
  /\ lastOk' = [lastOk EXCEPT ![Head(businesses[r]).businessId] =
                  [day |-> today[r], rained |-> has_rained[r]]]
  /\ businesses' = [businesses EXCEPT ![r] = Tail(@)]
  /\ pc' = [pc EXCEPT ![r] = "loop"]
  /\ weather' = [weather EXCEPT ![r] = NoWeather]
  /\ snap' = [snap EXCEPT ![r] = NoStore]
  /\ dirty' = [dirty EXCEPT ![r] = {}]
  /\ has_rained' = [has_rained EXCEPT ![r] = FALSE]
  /\ today' = [today EXCEPT ![r] = 0]
  /\ okSet' = [okSet EXCEPT ![r] = @ \cup {Head(businesses[r]).businessId}]
  /\ UNCHANGED <<store, clock, runs, updates, error, runStart, hist, orig>>
  /\ UNCHANGED notUpdater

\* line 66: every business is done.
RunDone(r) ==
  /\ pc[r] = "loop" /\ businesses[r] = << >>
  /\ pc' = [pc EXCEPT ![r] = "done"]
  /\ UNCHANGED <<store, clock, runs, businesses, has_rained, today, updates, error,
                 weather, snap, runStart, dirty, lastOk, hist, orig, okSet>>
  /\ UNCHANGED notUpdater

\* main returns (or its exception reaches the timer host).
Return(r) ==
  /\ pc[r] \in {"done", "aborted"}
  /\ pc' = [pc EXCEPT ![r] = "idle"]
  /\ businesses' = [businesses EXCEPT ![r] = << >>]
  /\ has_rained' = [has_rained EXCEPT ![r] = FALSE]
  /\ today' = [today EXCEPT ![r] = 0]
  /\ updates' = [updates EXCEPT ![r] = << >>]
  /\ error' = [error EXCEPT ![r] = "none"]
  /\ weather' = [weather EXCEPT ![r] = NoWeather]
  /\ snap' = [snap EXCEPT ![r] = NoStore]
  /\ runStart' = [runStart EXCEPT ![r] = NoStore]
  /\ dirty' = [dirty EXCEPT ![r] = {}]
  /\ okSet' = [okSet EXCEPT ![r] = {}]
  /\ UNCHANGED <<store, clock, runs, lastOk, hist, orig>>
  /\ UNCHANGED notUpdater

\* Midnight passes.
Tick ==
  /\ clock < MaxDay
  /\ clock' = clock + 1
  /\ UNCHANGED <<store, runs, pc, businesses, has_rained, today, updates, error,
                 weather, snap, runStart, dirty, lastOk, hist, orig, okSet>>
  /\ UNCHANGED notUpdater

Step(r) ==
  \/ StartRunNoConfig(r)
  \/ StartRun(r)
  \/ LocationQueryFails(r)
  \/ SkipBusiness(r)
  \/ CheckBusinessWeather(r)
  \/ PlantsQueryFails(r)
  \/ ReadPlants(r)
  \/ UpsertFails(r)
  \/ Upsert(r)
  \/ BusinessDone(r)
  \/ RunDone(r)
  \/ Return(r)

\* One updater invocation at a time: the timer trigger's intended use.
Next == Step(1) \/ Tick

Spec == Init /\ [][Next]_vars

\* Two invocations that overlap (nothing in the code excludes it): the
\* steps of both interleave at every query, weather request and upsert.
\* Two invocations are left to start; the stores they start from have
\* plant 1 with a schedule stamped yesterday, a second plant in its
\* business, and business b2 without GPS coordinates.
ConcStores ==
  {s \in Stores : /\ Has(s[1], "wateringSchedule")
                  /\ s[1].wateringSchedule.lastWateringUpdate = 0
                  /\ IsPlant(s[2])
                  /\ ~HasGps(s[3])}

InitConc == InitFrom(ConcStores, MaxRuns - 2) /\ NotifyIdle /\ ChatIdle /\ ReviewsIdle

NextConc == (\E r \in Runners : Step(r)) \/ Tick

SpecConc == InitConc /\ [][NextConc]_vars

\* ============================================ notification scheduler
\* src/backend/send_watering_notifications/__init__.py.  A time of day is
\* [hour, minute]; its "hh:mm" string is the sequence of its four digits
\* (the colon is the same in every string), compared as strings compare.
notNotify == <<vars, chatVars, reviewVars>>

TimeString(t) == <<t.hour \div 10, t.hour % 10, t.minute \div 10, t.minute % 10>>

RECURSIVE StrLeq(_, _)
StrLeq(a, b) ==
  IF a = << >> THEN TRUE
  ELSE IF b = << >> THEN FALSE
  ELSE IF Head(a) # Head(b) THEN Head(a) < Head(b)
  ELSE StrLeq(Tail(a), Tail(b))

\* x BETWEEN lo AND hi of the businesses query
Between(x, lo, hi) == StrLeq(lo, x) /\ StrLeq(x, hi)

\* get_time_offset: the datetime moved by the offset (the date may change),
\* formatted as hh:mm.
get_time_offset(hour, minute, offset_minutes) ==
  LET total == (hour * 60 + minute + offset_minutes + 1440) % 1440
  IN TimeString([hour |-> total \div 60, minute |-> total % 60])

\* lines 38-39: the half-width of the window around the current time
WindowMinutes == 30

\* The times of day used for utcnow() and for notificationTime.
T(h, m) == [hour |-> h, minute |-> m]
Times == {T(0, 0), T(0, 15), T(11, 30), T(12, 0), T(12, 30), T(12, 45), T(23, 45)}

\* lines 41-54: SELECT DISTINCT c.businessId ... BETWEEN @startTime AND
\* @endTime; the possible result lists.
BusinessesQuery(cont, start_time, end_time) ==
  LET S == {cont[n].businessId :
              n \in {n \in NIds : /\ cont[n].status = "active"
                                 /\ Between(cont[n].notificationTime, start_time, end_time)}}
  IN {[k \in 1..Len(q) |-> [businessId |-> q[k]]] : q \in SeqOfSet(S)}

\* lines 76-87: the plants of the business that need watering
PlantsNeedingWater(st, b) ==
  {i \in Ids : /\ OfBusiness(st[i], b) /\ IsPlant(st[i])
               /\ Has(st[i], "wateringSchedule")
               /\ st[i].wateringSchedule.needsWatering}

\* lines 94-104: the active settings of the business, by id
ActiveNotifications(cont, b) ==
  LET ids == SortedIds({n \in NIds : cont[n].businessId = b /\ cont[n].status = "active"})
  IN [k \in 1..Len(ids) |-> cont[ids[k]]]

\* lines 111-114: the set of device tokens of those settings
DeviceTokens(ns) ==
  UNION {IF Has(ns[k], "deviceTokens") THEN ns[k].deviceTokens ELSE {} : k \in 1..Len(ns)}

\* The early returns without the one for "no plant needs watering".
SomethingToSendAnyPlant(st, cont, b) ==
  /\ ActiveNotifications(cont, b) # << >>
  /\ DeviceTokens(ActiveNotifications(cont, b)) # {}

\* lines 89, 106, 116: none of the three early returns is taken
SomethingToSend(st, cont, b) ==
  /\ PlantsNeedingWater(st, b) # {}
  /\ ActiveNotifications(cont, b) # << >>
  /\ DeviceTokens(ActiveNotifications(cont, b)) # {}

\* The inventory the scheduler reads: plant 1 of b1 with a countdown that
\* is due or not, or as an updater's upsert left it (no productType);
\* document 2 a tool flagged by mistake; plant 3 of b2 due or unscheduled.
NotifyStores ==
  LET due(a) == Schedule(1, a, "None", 0, FALSE)
      p1 == DictSet(Listing(1, "b1", "plant"), "name", "fern")
      p3 == DictSet(Listing(3, "b2", "plant"), "name", "ivy")
  IN {[i \in Ids |-> IF i = 1 THEN d1 ELSE IF i = 2 THEN d2 ELSE d3] :
        d1 \in {DictSet(p1, "wateringSchedule", due(0)),
                DictSet(p1, "wateringSchedule", due(1)),
                [id |-> 1, businessId |-> "b1", wateringSchedule |-> due(0)]},
        d2 \in {DictSet(Listing(2, "b1", "tool"), "wateringSchedule", due(0))},
        d3 \in {DictSet(p3, "wateringSchedule", due(0)), p3}}

\* A notification setting of a business.
Setting(n, b, status, t) ==
  [id |-> n, businessId |-> b, status |-> status, notificationTime |-> TimeString(t)]

\* The settings stored: setting 1 is b1's, setting 2 is b1's or b2's; a
\* setting has no deviceTokens, an empty list, or tokens.
NotifySettings ==
  LET S1 == {Setting(1, "b1", st, t) : st \in {"active", "inactive"}, t \in Times}
      S2 == {Setting(2, b, st, t) : b \in Businesses, st \in {"active", "inactive"},
                                    t \in {T(0, 0), T(12, 0)}}
      tok(d, ts) == {d, DictSet(d, "deviceTokens", {}), DictSet(d, "deviceTokens", ts)}
  IN {[n \in NIds |-> IF n = 1 THEN d1 ELSE d2] :
        d1 \in UNION {tok(d, {"k1", "k2"}) : d \in S1},
        d2 \in UNION {{d, DictSet(d, "deviceTokens", {"k2"})} : d \in S2}}

InitNotify ==
  /\ InitFrom(NotifyStores, 0)
  /\ ChatIdle /\ ReviewsIdle
  /\ notifications_container \in NotifySettings
  /\ norig = notifications_container
  /\ now = NoTime
  /\ npc = "idle"
  /\ nbusinesses = << >>
  /\ notifications = << >>
  /\ device_tokens = {}
  /\ sentLog = {}
  /\ selected = {}

\* lines 16-64: an exception leaves main
NotifyAbort ==
  /\ npc' = "failed"
  /\ UNCHANGED <<notifications_container, now, nbusinesses, notifications,
                 device_tokens, sentLog, selected, norig>>
  /\ UNCHANGED notNotify

\* lines 18-54: the configuration is missing or the businesses query fails
NotifyQueryFails ==
  /\ npc = "idle"
  /\ NotifyAbort

\* lines 30-54: the current time, the window and the businesses selected
NotifyStart ==
  /\ npc = "idle"
  /\ \E t \in Times :
       \E q \in BusinessesQuery(notifications_container,
                                get_time_offset(t.hour, t.minute, 0 - WindowMinutes),
                                get_time_offset(t.hour, t.minute, WindowMinutes)) :
         /\ now' = t
         /\ nbusinesses' = q
         /\ selected' = {q[k].businessId : k \in 1..Len(q)}
  /\ npc' = "loop"
  /\ UNCHANGED <<notifications_container, notifications, device_tokens, sentLog, norig>>
  /\ UNCHANGED notNotify

\* lines 76-104: a query of process_business_notifications fails
ProcessQueryFails ==
  /\ npc = "loop" /\ nbusinesses # << >>
  /\ NotifyAbort

\* lines 89-91, 106-108, 116-118: an early return
ProcessNothing ==
  /\ npc = "loop" /\ nbusinesses # << >>
  /\ ~SomethingToSend(store, notifications_container, Head(nbusinesses).businessId)
  /\ nbusinesses' = Tail(nbusinesses)
  /\ UNCHANGED <<notifications_container, now, npc, notifications, device_tokens,
                 sentLog, selected, norig>>
  /\ UNCHANGED notNotify

\* lines 76-128: plants, settings and tokens are there
ProcessCollect ==
  /\ npc = "loop" /\ nbusinesses # << >>
  /\ LET b == Head(nbusinesses).businessId IN
       /\ SomethingToSend(store, notifications_container, b)
       /\ notifications' = ActiveNotifications(notifications_container, b)
       /\ device_tokens' = DeviceTokens(ActiveNotifications(notifications_container, b))
  /\ npc' = "send"
  /\ UNCHANGED <<notifications_container, now, nbusinesses, sentLog, selected, norig>>
  /\ UNCHANGED notNotify

\* lines 131-137, 150-197: one post per token; an exception (missing hub
\* configuration, a failed request) stops the posts and leaves main.
SendNotifications ==
  /\ npc = "send"
  /\ \E posted \in SUBSET device_tokens :
       /\ sentLog' = sentLog \cup {[businessId |-> Head(nbusinesses).businessId, token |-> k] :
                                     k \in posted}
       /\ npc' = IF posted = device_tokens THEN "stamp" ELSE "failed"
  /\ UNCHANGED <<notifications_container, now, nbusinesses, notifications, device_tokens,
                 selected, norig>>
  /\ UNCHANGED notNotify

\* lines 140-142: the next setting is stamped and upserted
Stamp ==
  /\ npc = "stamp" /\ notifications # << >>
  /\ LET notification == DictSet(Head(notifications), "lastSent", "now") IN
       notifications_container' =
         [notifications_container EXCEPT ![notification.id] = notification]
  /\ notifications' = Tail(notifications)
  /\ UNCHANGED <<now, npc, nbusinesses, device_tokens, sentLog, selected, norig>>
  /\ UNCHANGED notNotify

\* line 142: the upsert fails
StampFails ==
  /\ npc = "stamp" /\ notifications # << >>
  /\ NotifyAbort

\* line 144: the business is done
ProcessDone ==
  /\ npc = "stamp" /\ notifications = << >>
  /\ nbusinesses' = Tail(nbusinesses)
  /\ device_tokens' = {}
  /\ npc' = "loop"
  /\ UNCHANGED <<notifications_container, now, notifications, sentLog, selected, norig>>
  /\ UNCHANGED notNotify

\* line 60: every selected business was processed
NotifyDone ==
  /\ npc = "loop" /\ nbusinesses = << >>
  /\ npc' = "done"
  /\ UNCHANGED <<notifications_container, now, nbusinesses, notifications,
                 device_tokens, sentLog, selected, norig>>
  /\ UNCHANGED notNotify

NextNotify ==
  \/ NotifyQueryFails \/ NotifyStart
  \/ ProcessQueryFails \/ ProcessNothing \/ ProcessCollect
  \/ SendNotifications \/ Stamp \/ StampFails \/ ProcessDone \/ NotifyDone

SpecNotify == InitNotify /\ [][NextNotify]_<<vars, notUpdater>>

\* ===================================================== chat handlers
\* src/backend/create-chat, send-message and get-messages.  A container is
\* the sequence of its documents, a document's id its position (each
\* uuid4 is new).  Two requests run at a time, each a sequence of
\* container operations on a copy of what it read.
MaxRequests == 3

notChat == <<vars, notifyVars, reviewVars>>

Users == {"u1", "u2"}
Other(u) == CHOOSE p \in Users : p # u
PlantIds == {"", "p1"}

\* create-chat lines 36-37: "|".join(sorted([sender_id, receiver_id]))
participants_key(sender_id, receiver_id) ==
  SelectSeq(<<"u1", "u2">>, LAMBDA u : u \in {sender_id, receiver_id})

\* create-chat lines 40-53: the stored conversations of the pair and plant
ExistingConversations(cont, key, plant_id) ==
  {c \in 1..Len(cont) :
     /\ cont[c].participantsKey = key
     /\ IF plant_id # "" THEN Has(cont[c], "plantId") /\ cont[c].plantId = plant_id
        ELSE ~Has(cont[c], "plantId")}

\* lines 70-73 of create-chat, 118-121 of send-message
IncrementUnread(conversation, receiver_id) ==
  [conversation EXCEPT !.unreadCounts =
     DictSet(@, receiver_id, DictGet(@, receiver_id, 0) + 1)]

\* create-chat lines 86-108
new_conversation(conversation_id, sender_id, receiver_id, plant_id) ==
  LET base == [id |-> conversation_id,
               participants |-> <<sender_id, receiver_id>>,
               participantsKey |-> participants_key(sender_id, receiver_id),
               unreadCounts |-> DictSet(DictSet(<< >>, receiver_id, 1), sender_id, 0)]
  IN IF plant_id # "" THEN DictSet(base, "plantId", plant_id) ELSE base

\* create-chat lines 118-129, send-message lines 94-105
Message(conversation_id, sender_id) ==
  [conversationId |-> conversation_id, senderId |-> sender_id, read |-> FALSE]

Idle(s) == requests[s].pc = "idle"
Finish(s) == requests' = [requests EXCEPT ![s] = NoRequest]

InitChat ==
  /\ InitFrom({NoStore}, 0)
  /\ NotifyIdle /\ ReviewsIdle
  /\ ChatIdle

\* create-chat lines 22-53: the request arrives and looks for a conversation
CreateChatQuery(s) ==
  /\ Idle(s) /\ started < MaxRequests
  /\ \E sender_id \in Users, plant_id \in PlantIds :
       LET receiver_id == Other(sender_id)
           found == ExistingConversations(conversations_container,
                                          participants_key(sender_id, receiver_id), plant_id)
       IN \/ /\ found = {}
             /\ requests' = [requests EXCEPT ![s] =
                               [op |-> "create-chat", pc |-> "create", sender_id |-> sender_id,
                                receiver_id |-> receiver_id, plant_id |-> plant_id]]
          \/ \E c \in found :
               requests' = [requests EXCEPT ![s] =
                              [op |-> "create-chat", pc |-> "replace", sender_id |-> sender_id,
                               receiver_id |-> receiver_id, plant_id |-> plant_id,
                               conversation |-> conversations_container[c]]]
  /\ started' = started + 1
  /\ UNCHANGED <<conversations_container, messages_container>>
  /\ UNCHANGED notChat

\* create-chat lines 58-80: the conversation found is updated and replaced
CreateChatReplace(s) ==
  /\ requests[s].op = "create-chat" /\ requests[s].pc = "replace"
  /\ LET r == requests[s]
         conversation == IncrementUnread(r.conversation, r.receiver_id)
     IN /\ conversations_container' =
             [conversations_container EXCEPT ![conversation.id] = conversation]
        /\ requests' = [requests EXCEPT ![s] =
                          [op |-> "create-chat", pc |-> "message", sender_id |-> r.sender_id,
                           conversation_id |-> conversation.id, is_new_conversation |-> FALSE]]
  /\ UNCHANGED <<messages_container, started>>
  /\ UNCHANGED notChat

\* create-chat lines 81-114: a new conversation is created
CreateChatCreate(s) ==
  /\ requests[s].op = "create-chat" /\ requests[s].pc = "create"
  /\ LET r == requests[s]
         conversation_id == Len(conversations_container) + 1
     IN /\ conversations_container' =
             Append(conversations_container,
                    new_conversation(conversation_id, r.sender_id, r.receiver_id, r.plant_id))
        /\ requests' = [requests EXCEPT ![s] =
                          [op |-> "create-chat", pc |-> "message", sender_id |-> r.sender_id,
                           conversation_id |-> conversation_id, is_new_conversation |-> TRUE]]
  /\ UNCHANGED <<messages_container, started>>
  /\ UNCHANGED notChat

\* create-chat lines 117-131: the message is stored, the request completes
CreateChatMessage(s) ==
  /\ requests[s].op = "create-chat" /\ requests[s].pc = "message"
  /\ messages_container' =
       Append(messages_container, Message(requests[s].conversation_id, requests[s].sender_id))
  /\ Finish(s)
  /\ UNCHANGED <<conversations_container, started>>
  /\ UNCHANGED notChat

\* send-message lines 61-66: no conversation of that id
SendMessageNotFound(s) ==
  /\ Idle(s) /\ started < MaxRequests
  /\ conversations_container = << >>
  /\ started' = started + 1
  /\ UNCHANGED <<conversations_container, messages_container, requests>>
  /\ UNCHANGED notChat

\* send-message lines 49-79: the conversation is read, the receiver found
SendMessageRead(s) ==
  /\ Idle(s) /\ started < MaxRequests
  /\ \E chat_id \in 1..Len(conversations_container), sender_id \in Users :
       requests' = [requests EXCEPT ![s] =
                      [op |-> "send-message", pc |-> "message", sender_id |-> sender_id,
                       receiver_id |-> Other(sender_id),
                       conversation |-> conversations_container[chat_id]]]
  /\ started' = started + 1
  /\ UNCHANGED <<conversations_container, messages_container>>
  /\ UNCHANGED notChat

\* send-message lines 91-107: the message is stored
SendMessageCreate(s) ==
  /\ requests[s].op = "send-message" /\ requests[s].pc = "message"
  /\ messages_container' =
       Append(messages_container, Message(requests[s].conversation.id, requests[s].sender_id))
  /\ requests' = [requests EXCEPT ![s].pc = "replace"]
  /\ UNCHANGED <<conversations_container, started>>
  /\ UNCHANGED notChat

\* send-message lines 110-124: the copy read is updated and replaces the
\* stored conversation; the request completes
SendMessageReplace(s) ==
  /\ requests[s].op = "send-message" /\ requests[s].pc = "replace"
  /\ LET conversation == IncrementUnread(requests[s].conversation, requests[s].receiver_id)
     IN conversations_container' =
          [conversations_container EXCEPT ![conversation.id] = conversation]
  /\ Finish(s)
  /\ UNCHANGED <<messages_container, started>>
  /\ UNCHANGED notChat

\* get-messages lines 54-81: messages and conversation are read
GetMessagesRead(s) ==
  /\ Idle(s) /\ started < MaxRequests
  /\ \E chat_id \in 1..Len(conversations_container), user_id \in Users :
       requests' = [requests EXCEPT ![s] =
                      [op |-> "get-messages", pc |-> "reset", user_id |-> user_id,
                       conversation |-> conversations_container[chat_id]]]
  /\ started' = started + 1
  /\ UNCHANGED <<conversations_container, messages_container>>
  /\ UNCHANGED notChat

\* get-messages lines 102-106: the user's count is reset in the copy read,
\* which replaces the stored conversation
GetMessagesReset(s) ==
  /\ requests[s].op = "get-messages" /\ requests[s].pc = "reset"
  /\ LET r == requests[s] IN
       IF Has(r.conversation, "unreadCounts") /\ Has(r.conversation.unreadCounts, r.user_id)
       THEN conversations_container' =
              [conversations_container EXCEPT ![r.conversation.id] =
                 [r.conversation EXCEPT !.unreadCounts[r.user_id] = 0]]
       ELSE UNCHANGED conversations_container
  /\ requests' = [requests EXCEPT ![s].pc = "mark"]
  /\ UNCHANGED <<messages_container, started>>
  /\ UNCHANGED notChat

\* get-messages lines 109-139: the unread messages of the other participant
\* are queried and replaced as read (a message changes in no other way, so
\* the replaces are taken together); the request completes
GetMessagesMark(s) ==
  /\ requests[s].op = "get-messages" /\ requests[s].pc = "mark"
  /\ LET r == requests[s] IN
       messages_container' =
         [m \in 1..Len(messages_container) |->
            IF /\ messages_container[m].conversationId = r.conversation.id
               /\ messages_container[m].senderId = Other(r.user_id)
               /\ ~messages_container[m].read
            THEN [messages_container[m] EXCEPT !.read = TRUE]
            ELSE messages_container[m]]
  /\ Finish(s)
  /\ UNCHANGED <<conversations_container, started>>
  /\ UNCHANGED notChat

NextChat ==
  \E s \in Slots :
    \/ CreateChatQuery(s) \/ CreateChatReplace(s) \/ CreateChatCreate(s)
    \/ CreateChatMessage(s)
    \/ SendMessageNotFound(s) \/ SendMessageRead(s) \/ SendMessageCreate(s)
    \/ SendMessageReplace(s)
    \/ GetMessagesRead(s) \/ GetMessagesReset(s) \/ GetMessagesMark(s)

SpecChat == InitChat /\ [][NextChat]_<<vars, notUpdater>>

\* =================================================== review handlers
\* src/backend/reviews-submit and reviews-delete, one request at a time.
\* The reviews container is the set of its documents; targets holds the
\* seller (users container) and the product (marketplace-plants) reviewed.
\* An average is the fraction sum / count.
notReviews == <<vars, notifyVars, chatVars>>

None == "None"
Ratings == {1, 4, 5}
Reviewers == {"u1", "u2"}
ReviewTargets == {[type |-> "seller", id |-> "s1"], [type |-> "product", id |-> "p1"]}

Frac(n, d) == [num |-> n, den |-> d]

RECURSIVE SumRatings(_)
SumRatings(S) ==
  IF S = {} THEN 0
  ELSE LET r == CHOOSE r \in S : TRUE IN r.rating + SumRatings(S \ {r})

\* reviews-submit lines 179-192, reviews-delete lines 87-102: the reviews
\* whose ratings the query returns
RatedReviews(cont, target_type, target_id) ==
  IF target_type = "seller" THEN {r \in cont : r.sellerId = target_id}
  ELSE {r \in cont : r.productId = target_id}

\* lines 227-233 (submit), 140-147 (delete): the stats written to the target
WithStats(tg, target_id, average_rating, count) ==
  [tg EXCEPT ![target_id] =
     DictSet(@, "stats",
             DictSet(DictSet(DictGet(@, "stats", << >>), "rating", average_rating),
                     "reviewCount", count))]

\* reviews-submit lines 173-233
submit_update_target_rating(cont, tg, target_type, target_id) ==
  LET ratings == RatedReviews(cont, target_type, target_id) IN
  IF ratings = {} THEN tg
  ELSE IF target_id \notin DOMAIN tg THEN tg
  ELSE WithStats(tg, target_id, Frac(SumRatings(ratings), Cardinality(ratings)),
                 Cardinality(ratings))

\* reviews-delete lines 81-147
delete_update_target_rating(cont, tg, target_type, target_id) ==
  LET ratings == RatedReviews(cont, target_type, target_id)
      average_rating == IF ratings # {} THEN Frac(SumRatings(ratings), Cardinality(ratings))
                        ELSE Frac(0, 1)
  IN IF target_id \notin DOMAIN tg THEN tg
     ELSE WithStats(tg, target_id, average_rating, Cardinality(ratings))

\* reviews-submit lines 56-82: the partition key of the review
SellerOf(tg, target_type, target_id) ==
  IF target_type = "product" THEN tg[target_id].sellerId ELSE target_id

\* reviews-submit lines 87-106: the user's reviews of the target
ExistingReviews(cont, target_type, target_id, seller_id, user_id) ==
  IF target_type = "seller"
  THEN {r \in cont : r.sellerId = seller_id /\ r.userId = user_id}
  ELSE {r \in cont : r.productId = target_id /\ r.userId = user_id}

\* reviews-submit lines 137-147
review_item(review_id, seller_id, target_type, target_id, user_id, rating) ==
  [id |-> review_id, sellerId |-> seller_id,
   productId |-> IF target_type = "product" THEN target_id ELSE None,
   targetType |-> target_type, userId |-> user_id, rating |-> rating]

\* reviews-delete lines 58-59: the target the deleted review is taken for
DeleteTargetType(review) == IF Has(review, "productId") THEN "product" ELSE "seller"
DeleteTargetId(review) ==
  IF DeleteTargetType(review) = "product" THEN review.productId ELSE review.sellerId

\* The response, with the target the request reviewed and whether its
\* rating update ran without an exception.
Response(op, status, target_type, target_id, updated) ==
  [op |-> op, status |-> status, target_type |-> target_type, target_id |-> target_id,
   updated |-> updated]

InitReviews ==
  /\ InitFrom({NoStore}, 0)
  /\ NotifyIdle /\ ChatIdle
  /\ reviews_container = {}
  /\ targets = [t \in {"s1", "p1"} |->
                  IF t = "p1" THEN [id |-> t, sellerId |-> "s1"] ELSE [id |-> t]]
  /\ last = NoResponse
  /\ submitted = 0

\* reviews-submit lines 87-109: the user has reviewed the target already
SubmitDuplicate ==
  /\ submitted < MaxRequests
  /\ \E t \in ReviewTargets, user_id \in Reviewers :
       /\ ExistingReviews(reviews_container, t.type, t.id,
                          SellerOf(targets, t.type, t.id), user_id) # {}
       /\ last' = Response("reviews-submit", 400, t.type, t.id, FALSE)
  /\ submitted' = submitted + 1
  /\ UNCHANGED <<reviews_container, targets>>
  /\ UNCHANGED notReviews

\* reviews-submit lines 132-167: the review is created and the target's
\* rating updated
SubmitReview ==
  /\ submitted < MaxRequests
  /\ \E t \in ReviewTargets, user_id \in Reviewers, rating \in Ratings :
       LET seller_id == SellerOf(targets, t.type, t.id)
           item == review_item(submitted + 1, seller_id, t.type, t.id, user_id, rating)
       IN /\ ExistingReviews(reviews_container, t.type, t.id, seller_id, user_id) = {}
          /\ reviews_container' = reviews_container \cup {item}
          /\ targets' = submit_update_target_rating(reviews_container', targets, t.type, t.id)
          /\ last' = Response("reviews-submit", 201, t.type, t.id, TRUE)
  /\ submitted' = submitted + 1
  /\ UNCHANGED notReviews

\* reviews-submit lines 157-160: the rating update raises, which is logged
SubmitReviewUpdateFails ==
  /\ submitted < MaxRequests
  /\ \E t \in ReviewTargets, user_id \in Reviewers, rating \in Ratings :
       LET seller_id == SellerOf(targets, t.type, t.id)
           item == review_item(submitted + 1, seller_id, t.type, t.id, user_id, rating)
       IN /\ ExistingReviews(reviews_container, t.type, t.id, seller_id, user_id) = {}
          /\ reviews_container' = reviews_container \cup {item}
          /\ last' = Response("reviews-submit", 201, t.type, t.id, FALSE)
  /\ submitted' = submitted + 1
  /\ UNCHANGED targets
  /\ UNCHANGED notReviews

\* reviews-delete lines 47-49: the review is another user's
DeleteNotAuthorized ==
  /\ submitted < MaxRequests
  /\ \E review \in reviews_container, user_id \in Reviewers :
       /\ review.userId # user_id
       /\ last' = Response("reviews-delete", 403, review.targetType,
                           IF review.targetType = "product" THEN review.productId
                           ELSE review.sellerId, FALSE)
  /\ submitted' = submitted + 1
  /\ UNCHANGED <<reviews_container, targets>>
  /\ UNCHANGED notReviews

\* reviews-delete lines 52-75: the review is deleted and the rating of the
\* target of lines 58-59 updated, if that target has an id
DeleteReview ==
  /\ submitted < MaxRequests
  /\ \E review \in reviews_container :
       LET target_type == DeleteTargetType(review)
           target_id == DeleteTargetId(review)
       IN /\ reviews_container' = reviews_container \ {review}
          /\ targets' = IF target_id # None
                        THEN delete_update_target_rating(reviews_container', targets,
                                                         target_type, target_id)
                        ELSE targets
          /\ last' = Response("reviews-delete", 200, review.targetType,
                              IF review.targetType = "product" THEN review.productId
                              ELSE review.sellerId, TRUE)
  /\ submitted' = submitted + 1
  /\ UNCHANGED notReviews

\* reviews-delete lines 65-69: the rating update raises, which is logged
DeleteReviewUpdateFails ==
  /\ submitted < MaxRequests
  /\ \E review \in reviews_container :
       /\ DeleteTargetId(review) # None
       /\ reviews_container' = reviews_container \ {review}
       /\ last' = Response("reviews-delete", 200, review.targetType,
                           IF review.targetType = "product" THEN review.productId
                           ELSE review.sellerId, FALSE)
  /\ submitted' = submitted + 1
  /\ UNCHANGED targets
  /\ UNCHANGED notReviews

NextReviews ==
  \/ SubmitDuplicate \/ SubmitReview \/ SubmitReviewUpdateFails
  \/ DeleteNotAuthorized \/ DeleteReview \/ DeleteReviewUpdateFails

SpecReviews == InitReviews /\ [][NextReviews]_<<vars, notUpdater>>

\* -------------------------------------------------------- properties
Sched(d) == d.wateringSchedule
Scheduled(d) == Has(d, "wateringSchedule")
Current(r) == Head(businesses[r]).businessId
BaseInterval(d) == IF Has(d, "water_days") THEN d.water_days ELSE 7
FloorDec(n) == IF n - 1 < 0 THEN 0 ELSE n - 1
BusinessFinished(r) == pc[r] = "upsert" /\ updates[r] = << >>

\* C1: after every run, every stored plant record that has a
\* wateringSchedule has needsWatering true iff activeWaterDays <= 0.
C1_NeedsWateringIffDue ==
  \A r \in Runners : pc[r] = "done" =>
    \A i \in Ids : Scheduled(store[i]) =>
      (Sched(store[i]).needsWatering <=> Sched(store[i]).activeWaterDays <= 0)

\* C2: a plant of productType 'plant' without wateringSchedule, of a business
\* the run has finished updating, has after the run a stored schedule with
\* activeWaterDays = waterDays = its base interval (water_days, or 7); with
\* no rain the schedule also has needsWatering and weatherAffected false
\* (the countdown was not decremented in that run).
C2_InitializedToBaseInterval ==
  \A r \in Runners : pc[r] = "done" =>
    \A i \in Ids :
      (/\ IsPlant(runStart[r][i]) /\ ~Scheduled(runStart[r][i])
       /\ runStart[r][i].businessId \in okSet[r])
      => /\ Scheduled(store[i])
         /\ Sched(store[i]).activeWaterDays = BaseInterval(runStart[r][i])
         /\ Sched(store[i]).waterDays = BaseInterval(runStart[r][i])
         /\ ~lastOk[runStart[r][i].businessId].rained
              => /\ ~Sched(store[i]).needsWatering
                 /\ ~Sched(store[i]).weatherAffected

C2_Witness ==
  /\ pc[1] = "done"
  /\ \E i \in Ids :
       /\ IsPlant(runStart[1][i]) /\ ~Scheduled(runStart[1][i])
       /\ Has(runStart[1][i], "water_days") /\ runStart[1][i].water_days = MaxWaterDays
       /\ runStart[1][i].businessId \in okSet[1]
       /\ ~lastOk[runStart[1][i].businessId].rained
       /\ Scheduled(store[i])
  /\ \E i \in Ids :
       /\ IsPlant(runStart[1][i]) /\ ~Scheduled(runStart[1][i])
       /\ ~Has(runStart[1][i], "water_days")
       /\ runStart[1][i].businessId \in okSet[1]
       /\ Scheduled(store[i])

\* C3: with no rain detected, a plant whose schedule has lastWateringUpdate
\* other than today has after the run activeWaterDays = max(0, old - 1),
\* needsWatering = (new activeWaterDays <= 0), weatherAffected false and
\* lastWateringUpdate = today.
C3_StaleScheduleDecremented ==
  \A r \in Runners : pc[r] = "done" =>
    \A i \in Ids :
      LET before == runStart[r][i]
          b == before.businessId
      IN (/\ IsPlant(orig[i]) /\ Scheduled(before)
          /\ b \in okSet[r] /\ ~lastOk[b].rained
          /\ Sched(before).lastWateringUpdate # lastOk[b].day)
         => /\ Sched(store[i]).activeWaterDays = FloorDec(Sched(before).activeWaterDays)
            /\ Sched(store[i]).needsWatering = (Sched(store[i]).activeWaterDays <= 0)
            /\ ~Sched(store[i]).weatherAffected
            /\ Sched(store[i]).lastWateringUpdate = lastOk[b].day

\* C4: when rain is detected for a business, every plant of the business
\* has after the run activeWaterDays = its schedule's waterDays,
\* needsWatering false, weatherAffected true and lastWateringUpdate = today.
C4_RainResetsEveryPlant ==
  \A r \in Runners : pc[r] = "done" =>
    \A i \in Ids :
      LET b == orig[i].businessId
      IN (IsPlant(orig[i]) /\ b \in okSet[r] /\ lastOk[b].rained)
         => /\ Scheduled(store[i])
            /\ Sched(store[i]).activeWaterDays = Sched(store[i]).waterDays
            /\ ~Sched(store[i]).needsWatering
            /\ Sched(store[i]).weatherAffected
            /\ Sched(store[i]).lastWateringUpdate = lastOk[b].day

\* C5: a no-rain update of a business that follows a completed no-rain
\* update of it on the same date changes no field of, and queues no write
\* for, any of its plants that has a schedule; the run skips every schedule
\* whose lastWateringUpdate is today, which is what the earlier run left.
C5_SecondRunSameDayIdempotent ==
  \A r \in Runners : (pc[r] = "upsert" /\ ~has_rained[r]) =>
    \A i \in Ids :
      (/\ OfBusiness(snap[r][i], Current(r)) /\ Scheduled(snap[r][i])
       /\ \/ Sched(snap[r][i]).lastWateringUpdate = today[r]
          \/ (lastOk[Current(r)].day = today[r] /\ ~lastOk[Current(r)].rained))
      => (i \notin dirty[r] /\ store[i] = snap[r][i])

C5_Witness ==
  /\ BusinessFinished(1) /\ ~has_rained[1]
  /\ lastOk[Current(1)].day = today[1] /\ ~lastOk[Current(1)].rained
  /\ \E i \in Ids :
       /\ OfBusiness(snap[1][i], Current(1)) /\ IsPlant(snap[1][i])
       /\ Scheduled(snap[1][i]) /\ store[i] = snap[1][i]
  /\ \E i \in Ids :
       /\ OfBusiness(snap[1][i], Current(1)) /\ ~IsPlant(snap[1][i])
       /\ Scheduled(snap[1][i]) /\ Sched(snap[1][i]).lastWateringUpdate = today[1]

C7_FailureDoesNotStopRun ==
  \A r \in Runners :
    (pc[r] = "aborted" /\ error[r] \in {"location_query", "plants_query", "upsert"})
    => Len(businesses[r]) <= 1

FetchFailed(w) == w.kind = "exception" \/ (w.kind = "response" /\ w.status # 200)

Malformed(w) ==
  /\ w.kind = "response" /\ w.status = 200 /\ Has(w, "body")
  /\ \/ w.body.t = "null"
     \/ ~Has(w.body.v, "weather")
     \/ w.body.v.weather = << >>
     \/ ~Has(w.body.v.weather[1], "id")
     \/ w.body.v.weather[1].id.t # "int"

\* C9: a missing, empty or malformed weather response (None, no 'weather'
\* list, an empty list, a first condition without a numeric code) is
\* classified as no rain without raising.
C9_MalformedWeatherIsNoRain ==
  \A r \in Runners : Malformed(weather[r]) =>
    /\ error[r] # "did_it_rain"
    /\ ~has_rained[r]
    /\ pc[r] = "update" \/ (pc[r] = "aborted" /\ error[r] = "plants_query")

\* C10: an exception or a non-200 status of the weather request gives
\* has_rained = false and the business is still processed: the plants query
\* runs, and the plants it returns without a schedule are initialized and
\* those with a schedule not stamped today are decremented.
C10_FetchFailureIsNoRain ==
  \A r \in Runners : FetchFailed(weather[r]) =>
    /\ ~has_rained[r]
    /\ pc[r] \in {"update", "upsert", "aborted"}
    /\ pc[r] = "aborted" => error[r] \in {"plants_query", "upsert"}
    /\ pc[r] = "upsert" =>
         dirty[r] = {i \in Ids :
                      /\ OfBusiness(snap[r][i], Current(r)) /\ IsPlant(snap[r][i])
                      /\ \/ ~Scheduled(snap[r][i])
                         \/ Sched(snap[r][i]).lastWateringUpdate # today[r]}
    /\ BusinessFinished(r) =>
         \A i \in dirty[r] :
           /\ Sched(store[i]).lastWateringUpdate = today[r]
           /\ ~Sched(store[i]).weatherAffected
           /\ Sched(store[i]).activeWaterDays =
                IF Scheduled(snap[r][i])
                THEN FloorDec(Sched(snap[r][i]).activeWaterDays)
                ELSE BaseInterval(snap[r][i])

C10_Witness ==
  /\ BusinessFinished(1) /\ FetchFailed(weather[1])
  /\ \E i \in dirty[1] : ~Scheduled(snap[1][i])
  /\ \E i \in dirty[1] : Scheduled(snap[1][i])

\* C11: a business none of whose plant records has GPS coordinates is
\* skipped: while it is the current business of the loop no step looks up
\* the weather, reads the plants for update or writes a record; the only
\* steps are the skip to the next business and the failure of the
\* location query itself.
NoGpsPlant(st, b) ==
  ~\E i \in Ids : OfBusiness(st[i], b) /\ IsPlant(st[i]) /\ HasGps(st[i])

C11_SkipStep ==
  (pc[1] = "loop" /\ businesses[1] # << >> /\ NoGpsPlant(store, Current(1)))
  => /\ store' = store
     /\ weather'[1] = weather[1]
     /\ snap'[1] = snap[1]
     /\ updates'[1] = updates[1]
     /\ okSet'[1] = okSet[1]
     /\ \/ pc'[1] = "loop" /\ businesses'[1] \in {businesses[1], Tail(businesses[1])}
        \/ pc'[1] = "aborted" /\ error'[1] = "location_query"

C11_NoGpsBusinessSkipped == [][C11_SkipStep]_vars

\* A finished run that skipped one business and updated another.
C11_Witness ==
  /\ pc[1] = "done"
  /\ okSet[1] # {}
  /\ \E i \in Ids :
       /\ IsPlant(runStart[1][i]) /\ Has(runStart[1][i], "location")
       /\ NoGpsPlant(runStart[1], runStart[1][i].businessId)
       /\ runStart[1][i].businessId \notin okSet[1]
       /\ store[i] = runStart[1][i]

\* C12: when the weather response carries a numeric primary (first)
\* condition code c, did_it_rain returns true iff 200 <= c < 600.
HasPrimaryCode(w) ==
  /\ w.kind = "response" /\ Has(w, "body")
  /\ w.status = 200
  /\ w.body.t = "obj" /\ Has(w.body.v, "weather")
  /\ Len(w.body.v.weather) > 0
  /\ Has(w.body.v.weather[1], "id")
  /\ w.body.v.weather[1].id.t = "int"

PrimaryCode(w) == w.body.v.weather[1].id.v

C12_RainIffCodeInRange ==
  \A r \in Runners :
    (pc[r] = "update" /\ HasPrimaryCode(weather[r]))
    => (has_rained[r] <=> (200 <= PrimaryCode(weather[r]) /\ PrimaryCode(weather[r]) < 600))

\* The first code past the range (600) classified as no rain.
C12_Witness ==
  /\ pc[1] = "update" /\ HasPrimaryCode(weather[1])
  /\ PrimaryCode(weather[1]) = 600 /\ ~has_rained[1]

\* C13: when a run that detected rain finishes a business, every plant of
\* the business that an earlier run already reset for rain on the same day
\* has been written again by this run and is in the state a single rain
\* run leaves it in.
EarlierMutations(r, i) ==
  IF i \in dirty[r] /\ i \notin {updates[r][k].id : k \in 1..Len(updates[r])}
  THEN SubSeq(hist[i], 1, Len(hist[i]) - 1)
  ELSE hist[i]

RainResetEarlier(r, i) ==
  \E k \in 1..Len(EarlierMutations(r, i)) :
    /\ EarlierMutations(r, i)[k].kind = "rain"
    /\ EarlierMutations(r, i)[k].day = today[r]

C13_SecondRainRunRewrites ==
  \A r \in Runners :
    (BusinessFinished(r) /\ has_rained[r])
    => \A i \in Ids :
         (IsPlant(orig[i]) /\ OfBusiness(orig[i], Current(r)) /\ RainResetEarlier(r, i))
         => /\ i \in dirty[r]
            /\ Scheduled(store[i])
            /\ Sched(store[i]).activeWaterDays = Sched(store[i]).waterDays
            /\ Sched(store[i]).weatherAffected
            /\ Sched(store[i]).lastWateringUpdate = today[r]

\* C14 (as claimed): when two overlapping no-rain runs of the same day
\* have both read a plant with the same stale schedule and both upserted
\* it, its activeWaterDays is 2 lower than what they read.
Written(r, i) ==
  /\ pc[r] = "upsert" /\ i \in dirty[r]
  /\ i \notin {updates[r][k].id : k \in 1..Len(updates[r])}

Raced(i) ==
  /\ Written(1, i) /\ Written(2, i)
  /\ ~has_rained[1] /\ ~has_rained[2]
  /\ today[1] = today[2]
  /\ Scheduled(snap[1][i]) /\ snap[1][i] = snap[2][i]
  /\ Sched(snap[1][i]).activeWaterDays >= 2

C14_RaceDoubleDecrements ==
  \A i \in Ids :
    Raced(i) => Sched(store[i]).activeWaterDays = Sched(snap[1][i]).activeWaterDays - 2

\* C14 (amended): however the steps of two runs of one day interleave, no
\* plant's activeWaterDays gets more than 1 lower than it was before both
\* started; when both runs read the same stale schedule, both upsert the
\* same countdown, 1 lower than the one they read.
C14_RaceWritesSameValue ==
  /\ clock = 1 =>
       \A i \in Ids :
         Scheduled(orig[i]) =>
           /\ Scheduled(store[i])
           /\ Sched(store[i]).activeWaterDays >= Sched(orig[i]).activeWaterDays - 1
  /\ \A i \in Ids :
       Raced(i) => Sched(store[i]).activeWaterDays = Sched(snap[1][i]).activeWaterDays - 1

\* Both runs have decremented and upserted plant 1 on the same day.
C14_Witness ==
  /\ Raced(1)
  /\ Len(hist[1]) = 3
  /\ hist[1][2].kind = "dec" /\ hist[1][3].kind = "dec"
  /\ hist[1][2].day = hist[1][3].day
  /\ Sched(store[1]).activeWaterDays = Sched(orig[1]).activeWaterDays - 1

\* C15: when the upsert of a dirty plant fails, the dirty plants upserted
\* before it hold their new wateringSchedule, and the failing plant and
\* the dirty plants after it hold the state that was read.
Pending(r) == {updates[r][k].id : k \in 1..Len(updates[r])}

C15_PartialFailureLeavesMix ==
  \A r \in Runners :
    (pc[r] = "aborted" /\ error[r] = "upsert")
    => \A i \in dirty[r] :
         IF i \in Pending(r)
         THEN store[i] = snap[r][i]
         ELSE /\ store[i] # snap[r][i]
              /\ Scheduled(store[i])
              /\ Sched(store[i])
                 = TransitionPlant(snap[r][i], has_rained[r], today[r]).plant.wateringSchedule

\* A failure on the second dirty plant: one written, one not.
C15_Witness ==
  /\ pc[1] = "aborted" /\ error[1] = "upsert"
  /\ \E i, j \in dirty[1] :
       /\ i \notin Pending(1) /\ store[i] # snap[1][i]
       /\ j \in Pending(1) /\ store[j] = snap[1][j]

\* C16: a run that finds the connection settings missing is aborted
\* before any business is discovered: it holds no business list, has made
\* no weather request, has read no plant, and the store is as it was when
\* the run started.
C16_MissingConfigAbortsBeforeDiscovery ==
  \A r \in Runners :
    error[r] = "config"
    => /\ pc[r] = "aborted"
       /\ businesses[r] = << >>
       /\ weather[r] = NoWeather
       /\ snap[r] = NoStore /\ updates[r] = << >> /\ dirty[r] = {}
       /\ okSet[r] = {}
       /\ store = runStart[r]

\* A run aborted on the missing settings while the store holds a business
\* that a configured run would have discovered.
C16_Witness ==
  /\ pc[1] = "aborted" /\ error[1] = "config"
  /\ \E rows \in BusinessQuery(store) : rows # << >>
  /\ store = runStart[1]

\* C17: a plant that already had a wateringSchedule keeps its stored
\* lastWatered through every run, whichever path (rain reset, decrement,
\* no change) the run takes for it.
C17_LastWateredUntouched ==
  \A i \in Ids :
    Scheduled(orig[i])
    => /\ Scheduled(store[i])
       /\ Sched(store[i]).lastWatered = Sched(orig[i]).lastWatered

\* A plant watered at "t0" whose schedule a run has reset for rain.
C17_Witness ==
  /\ Scheduled(orig[2]) /\ Sched(orig[2]).lastWatered = "t0"
  /\ Len(hist[2]) >= 2 /\ hist[2][Len(hist[2])].kind = "rain"
  /\ Sched(store[2]).lastWatered = "t0"

\* C18: no step changes the wateringSchedule.waterDays of a stored plant
\* that has a schedule, also when the plant's base interval field differs
\* from it.
C18_WaterDaysStep ==
  \A i \in Ids :
    Scheduled(store[i])
    => /\ Scheduled(store'[i])
       /\ Sched(store'[i]).waterDays = Sched(store[i]).waterDays

C18_WaterDaysFixed == [][C18_WaterDaysStep]_vars

\* A plant whose base interval was edited after its schedule was created,
\* reset for rain by a run: waterDays is still the one of the schedule.
C18_Witness ==
  /\ Scheduled(orig[2]) /\ Has(orig[2], "water_days")
  /\ orig[2].water_days # Sched(orig[2]).waterDays
  /\ Len(hist[2]) >= 2 /\ hist[2][Len(hist[2])].kind = "rain"
  /\ Sched(store[2]).waterDays = Sched(orig[2]).waterDays
  /\ Sched(store[2]).activeWaterDays = Sched(orig[2]).waterDays

\* C19: in every reachable state every stored schedule's activeWaterDays
\* is an integer >= 0 (the base intervals of the initial stores are
\* non-negative integers or absent).
C19_CountdownNonNegative ==
  \A i \in Ids :
    Scheduled(store[i]) => Sched(store[i]).activeWaterDays \in Nat

\* A countdown that was 0 and stale, decremented by a run: still 0.
C19_Witness ==
  /\ Scheduled(orig[1]) /\ Sched(orig[1]).activeWaterDays = 0
  /\ Len(hist[1]) >= 2 /\ hist[1][Len(hist[1])].kind = "dec"
  /\ Sched(store[1]).activeWaterDays = 0

\* C20: after any sequence of runs, a stored schedule's weatherAffected
\* is true iff the most recent mutation of the schedule was a rain reset;
\* it is false when the most recent mutation was a daily decrement.
C20_WeatherAffectedIffLastWasRain ==
  \A i \in Ids :
    (Scheduled(store[i]) /\ hist[i] # << >>)
    => (Sched(store[i]).weatherAffected <=> hist[i][Len(hist[i])].kind = "rain")

\* A schedule last reset by rain, then decremented by a later run.
C20_Witness ==
  /\ Scheduled(orig[2]) /\ Sched(orig[2]).weatherAffected
  /\ Len(hist[2]) >= 2 /\ hist[2][Len(hist[2])].kind = "dec"
  /\ ~Sched(store[2]).weatherAffected

\* C21 (as claimed): a plant that had no wateringSchedule when a run read
\* it is only initialized by that run: what the run writes for it is the
\* new schedule with weatherAffected false, also when the run detected
\* rain.
C21_FreshPlantOnlyInitialized ==
  \A r \in Runners : \A i \in Ids :
    (Written(r, i) /\ ~Scheduled(snap[r][i]))
    => /\ Sched(store[i]).activeWaterDays = BaseInterval(snap[r][i])
       /\ ~Sched(store[i]).weatherAffected

\* C21 (amended): a plant without a schedule is initialized and, when the
\* run detected rain, reset for rain in the same pass (weatherAffected
\* true); a plant with a schedule takes exactly one of rain reset (rain),
\* decrement (no rain, not stamped today) and no change (no rain, stamped
\* today), and only the last is not written.
C21_InitThenRainOrDecrementOrNone ==
  \A r \in Runners :
    pc[r] = "upsert" =>
      \A i \in Ids :
        (IsPlant(snap[r][i]) /\ OfBusiness(snap[r][i], Current(r)))
        => LET old == snap[r][i] IN
           IF ~Scheduled(old)
           THEN /\ i \in dirty[r]
                /\ Written(r, i) =>
                     /\ Sched(store[i]).waterDays = BaseInterval(old)
                     /\ Sched(store[i]).activeWaterDays = BaseInterval(old)
                     /\ Sched(store[i]).lastWateringUpdate = today[r]
                     /\ Sched(store[i]).weatherAffected = has_rained[r]
           ELSE IF has_rained[r]
           THEN /\ i \in dirty[r]
                /\ Written(r, i) =>
                     /\ Sched(store[i]).activeWaterDays = Sched(old).waterDays
                     /\ Sched(store[i]).weatherAffected
           ELSE IF Sched(old).lastWateringUpdate # today[r]
           THEN /\ i \in dirty[r]
                /\ Written(r, i) =>
                     /\ Sched(store[i]).activeWaterDays = FloorDec(Sched(old).activeWaterDays)
                     /\ ~Sched(store[i]).weatherAffected
           ELSE i \notin dirty[r] /\ store[i] = old

\* A plant without a schedule, written by a run that detected rain.
C21_Witness ==
  /\ Written(1, 1) /\ ~Scheduled(snap[1][1]) /\ has_rained[1]
  /\ Sched(store[1]).weatherAffected
  /\ Sched(store[1]).activeWaterDays = BaseInterval(snap[1][1])

\* C22: a record whose productType is not 'plant' is never given a
\* wateringSchedule and never written, also when its business is
\* processed.
C22_OnlyPlantsScheduled ==
  \A i \in Ids :
    ~IsPlant(orig[i]) => (store[i] = orig[i] /\ hist[i] = << >>)

\* A tool of business b1 after the run has finished updating b1.
C22_Witness ==
  /\ ~IsPlant(orig[2]) /\ OfBusiness(orig[2], "b1")
  /\ "b1" \in okSet[1]
  /\ hist[1] # << >>
  /\ store[2] = orig[2] /\ ~Scheduled(store[2])

\* C23: within one run a plant document is written at most once (the
\* businesses of a run are distinct, the updates list of a business names
\* a plant once, and no plant has more upserts than there were runs), and
\* only on the initialize, rain-reset or decrement path: a plant with a
\* schedule stamped today in a run without rain is not in the updates.
C23_WrittenOnceAndOnlyIfChanged ==
  /\ \A i \in Ids : Len(hist[i]) <= Len(SeedHist(orig[i])) + runs
  /\ \A r \in Runners :
       /\ \A k, l \in 1..Len(businesses[r]) :
            k # l => businesses[r][k] # businesses[r][l]
       /\ \A k, l \in 1..Len(updates[r]) :
            k # l => updates[r][k].id # updates[r][l].id
       /\ pc[r] = "upsert" =>
            \A i \in Ids :
              /\ i \in dirty[r] =>
                   \/ ~Scheduled(snap[r][i])
                   \/ has_rained[r]
                   \/ Sched(snap[r][i]).lastWateringUpdate # today[r]
              /\ (/\ IsPlant(snap[r][i]) /\ OfBusiness(snap[r][i], Current(r))
                  /\ Scheduled(snap[r][i]) /\ ~has_rained[r]
                  /\ Sched(snap[r][i]).lastWateringUpdate = today[r])
                 => (i \notin dirty[r] /\ store[i] = snap[r][i])

\* A business finished with one plant written once and another, stamped
\* today, not written.
C23_Witness ==
  /\ BusinessFinished(1) /\ ~has_rained[1]
  /\ dirty[1] = {1} /\ Len(hist[1]) = Len(SeedHist(orig[1])) + 1
  /\ IsPlant(snap[1][2]) /\ Scheduled(snap[1][2])
  /\ Sched(snap[1][2]).lastWateringUpdate = today[1]
  /\ store[2] = snap[1][2] /\ Len(hist[2]) = 1

\* C24: whatever the updater has written, a stored record still has every
\* field it had besides wateringSchedule (productType, location, the
\* base interval), with the same value, so a 'plant' record is still
\* matched by the queries of the next run.
C24_UpsertKeepsListingFields ==
  \A i \in Ids :
    /\ \A k \in DOMAIN orig[i] \ {"wateringSchedule"} :
         Has(store[i], k) /\ store[i][k] = orig[i][k]
    /\ IsPlant(orig[i]) => IsPlant(store[i])

\* C25: a plant initialized without rain with base interval 1 has
\* needsWatering = true once the no-rain update of its business on the
\* next calendar day has completed (the case n = 1 of: flagged after the
\* n-th daily no-rain run following the run that initialized it).
C25_FlaggedAfterDailyRuns ==
  \A i \in Ids : \A b \in Businesses :
    (/\ IsPlant(orig[i]) /\ OfBusiness(orig[i], b) /\ ~Scheduled(orig[i])
     /\ BaseInterval(orig[i]) = 1
     /\ hist[i] # << >> /\ hist[i][1].kind = "init"
     /\ lastOk[b].day = hist[i][1].day + 1 /\ ~lastOk[b].rained)
    => (Scheduled(store[i]) /\ Sched(store[i]).needsWatering)

\* What the scheduler did for a business: a reminder posted to a device,
\* a notification setting written.
SentTo(b) == {e \in sentLog : e.businessId = b}
WrittenSettings(b) ==
  {n \in NIds : norig[n].businessId = b /\ notifications_container[n] # norig[n]}

\* The conditions of the claim, read off the stored documents.
HasThirstyPlant(b) ==
  \E i \in Ids : /\ Has(store[i], "businessId") /\ store[i].businessId = b
                  /\ Has(store[i], "productType") /\ store[i].productType = "plant"
                  /\ Has(store[i], "wateringSchedule")
                  /\ store[i].wateringSchedule.needsWatering
HasActiveSetting(b) ==
  \E n \in NIds : norig[n].businessId = b /\ norig[n].status = "active"
HasDeviceToken(b) ==
  \E n \in NIds : /\ norig[n].businessId = b /\ norig[n].status = "active"
                   /\ Has(norig[n], "deviceTokens") /\ norig[n].deviceTokens # {}

\* C26: a reminder is posted for a business, or one of its notification
\* settings is written, only when the business has a plant with
\* needsWatering = true, an active setting and a device token; what is
\* written is an active setting, changed in lastSent alone.
C26_SentOnlyWhenPlantSettingAndToken ==
  \A b \in Businesses :
    /\ (SentTo(b) # {} \/ WrittenSettings(b) # {})
         => (HasThirstyPlant(b) /\ HasActiveSetting(b) /\ HasDeviceToken(b))
    /\ \A n \in WrittenSettings(b) :
         /\ norig[n].status = "active"
         /\ notifications_container[n] = DictSet(norig[n], "lastSent", "now")

\* A run completed in which b1 got its reminder and its stamp, and b2,
\* selected too but without a plant to water, got nothing.
C26_Witness ==
  /\ npc = "done" /\ selected = {"b1", "b2"}
  /\ SentTo("b1") # {} /\ WrittenSettings("b1") # {}
  /\ ~HasThirstyPlant("b2") /\ HasActiveSetting("b2") /\ HasDeviceToken("b2")
  /\ SentTo("b2") = {} /\ WrittenSettings("b2") = {}

\* Minutes between two times of day on the 24-hour clock.
ClockDistance(t, u) ==
  LET a == t.hour * 60 + t.minute
      b == u.hour * 60 + u.minute
      d == IF a >= b THEN a - b ELSE b - a
  IN IF d <= 1440 - d THEN d ELSE 1440 - d

\* C27: once the businesses query has answered, every business with an
\* active setting whose notificationTime is within 30 minutes of the
\* current time on the 24-hour clock is selected, also when the window
\* crosses midnight.
C27_SelectsEveryBusinessInWindow ==
  now # NoTime =>
    \A n \in NIds : \A t \in Times :
      (/\ norig[n].status = "active"
       /\ norig[n].notificationTime = TimeString(t)
       /\ ClockDistance(now, t) <= WindowMinutes)
      => norig[n].businessId \in selected

\* No request is in flight: every request started has completed.
Quiescent == \A s \in Slots : requests[s].pc = "idle"

\* The messages of a conversation sent by the other participant and unread.
UnreadFor(c, u) ==
  {m \in 1..Len(messages_container) :
     /\ messages_container[m].conversationId = c
     /\ messages_container[m].senderId # u
     /\ ~messages_container[m].read}

\* C28: when every create-chat, send-message and get-messages request
\* started has completed, unreadCounts[u] of each conversation is the
\* number of its messages sent by the other participant and not read.
C28_UnreadCountsMatchUnreadMessages ==
  Quiescent =>
    \A c \in 1..Len(conversations_container) : \A u \in Users :
      DictGet(conversations_container[c].unreadCounts, u, 0) = Cardinality(UnreadFor(c, u))

\* C29: when every create-chat request started has completed, at most one
\* conversation is stored for an unordered pair of participants and a
\* plantId (or its absence).
C29_OneConversationPerPairAndPlant ==
  Quiescent =>
    \A c, d \in 1..Len(conversations_container) :
      (/\ conversations_container[c].participantsKey = conversations_container[d].participantsKey
       /\ DictGet(conversations_container[c], "plantId", "")
            = DictGet(conversations_container[d], "plantId", ""))
      => c = d

\* The reviews stored for a target: a seller's are those of its partition,
\* a product's those that name it.
ReviewsFor(target_type, target_id) ==
  IF target_type = "seller" THEN {r \in reviews_container : r.sellerId = target_id}
  ELSE {r \in reviews_container : r.productId = target_id}

\* C30: after a successful reviews-submit or reviews-delete whose rating
\* update raised nothing, the reviewed target's stats.reviewCount is the
\* number of reviews stored for it and stats.rating their arithmetic mean
\* (0 when none remains).
C30_StatsMatchStoredReviews ==
  (last.op # "none" /\ last.status \in {200, 201} /\ last.updated) =>
    LET R == ReviewsFor(last.target_type, last.target_id)
        t == targets[last.target_id]
    IN /\ Has(t, "stats")
       /\ t.stats.reviewCount = Cardinality(R)
       /\ t.stats.rating.num * (IF R = {} THEN 1 ELSE Cardinality(R))
            = (IF R = {} THEN 0 ELSE SumRatings(R)) * t.stats.rating.den

====
